---- MODULE Spec2Model ----
(***************************************************************************)
(* Book catalogue service: the SQL repository (SQLBookRepository over a    *)
(* SQLite table "books"), the service layer (BookService), the request     *)
(* schemas and the HTTP router built on them, and the database session     *)
(* that get_db hands to each request.                                      *)
(*                                                                         *)
(* A string is a sequence of one-character strings: "Ab" is <<"A", "b">>.  *)
(* Python's None is the sentinel None below.  An Optional[Book] result is  *)
(* a sequence of at most one record (<<>> is None); a List[Book] result is *)
(* a sequence of records.                                                  *)
(***************************************************************************)
EXTENDS Integers, Sequences, FiniteSets, TLC

VARIABLES
    books,      \* the rows of table "books", in rowid (= id) order
    deleted,    \* history: the ids of the rows deleted so far
    last,       \* the last call: its name, its arguments and what it returned
    requests    \* per HTTP request in flight: where get_db stands, its session

vars == <<books, deleted, last, requests>>

(***************************************************************************)
(* Bounds of the model.                                                    *)
(***************************************************************************)
MaxBooks == 2       \* rows the table may hold at once
MaxLimit == 2       \* limit is drawn from 1..MaxLimit, skip from 0..MaxLimit
MaxRequests == 2    \* HTTP requests followed through get_db, side by side

(***************************************************************************)
(* Values.                                                                 *)
(***************************************************************************)
None     == <<"None">>      \* Python's None where a string may stand
NullId   == 0               \* Book.id before the INSERT
NullTime == -1              \* Book.created_on before the INSERT

MaxId == MaxBooks            \* the model stops inserting above this id
Ids   == 1..MaxId
Skips  == 0..MaxLimit
Limits == 1..MaxLimit

\* A test for None alone, which takes "" for a value.
IsNotNone(s) == s # None

\* Python truthiness of an Optional[str]: None and "" are falsy.
Truthy(s) == s # None /\ s # <<>>

Range(xs) == {xs[i] : i \in 1..Len(xs)}

Min(a, b) == IF a < b THEN a ELSE b
Max(a, b) == IF a > b THEN a ELSE b

\* Book(title=..., author=..., created_by=...): id and created_on are unset.
Book(title, author, created_by) ==
    [id |-> NullId, title |-> title, author |-> author,
     created_on |-> NullTime, created_by |-> created_by]

(***************************************************************************)
(* SQLite.                                                                 *)
(***************************************************************************)
\* The id taken from the number of rows instead of the largest rowid.
NextRowIdByCount(bs) == Len(bs) + 1

\* The id column is INTEGER PRIMARY KEY without the AUTOINCREMENT keyword
\* (SQLAlchemy renders it only under sqlite_autoincrement=True), so it is an
\* alias of the rowid: a new row gets the largest rowid in the table plus one.
NextRowId(bs) == IF bs = <<>> THEN 1 ELSE bs[Len(bs)].id + 1

\* LIKE folds the case of ASCII letters only.
AsciiFold(c) ==
    CASE c = "A" -> "a"
      [] c = "B" -> "b"
      [] OTHER   -> c

\* s LIKE p, with no ESCAPE clause: % matches any run of characters, _ any one.
RECURSIVE Like(_, _)
Like(p, s) ==
    IF p = <<>> THEN s = <<>>
    ELSE IF Head(p) = "%"
         THEN Like(Tail(p), s) \/ (s # <<>> /\ Like(p, Tail(s)))
         ELSE /\ s # <<>>
              /\ (Head(p) = "_" \/ AsciiFold(Head(p)) = AsciiFold(Head(s)))
              /\ Like(Tail(p), Tail(s))

\* column.contains(x): column LIKE '%' || x || '%', x bound as it is.
Contains(s, x) == Like(<<"%">> \o x \o <<"%">>, s)

\* OFFSET k: a negative k counts as 0.
RECURSIVE Offset(_, _)
Offset(rows, k) ==
    IF k <= 0 \/ rows = <<>> THEN rows ELSE Offset(Tail(rows), k - 1)

\* LIMIT k: a negative k is no limit.
RECURSIVE Limit(_, _)
Limit(rows, k) ==
    IF k < 0 THEN rows
    ELSE IF k = 0 \/ rows = <<>> THEN <<>>
    ELSE <<Head(rows)>> \o Limit(Tail(rows), k - 1)

(***************************************************************************)
(* Python.                                                                 *)
(***************************************************************************)
\* xs[lo:hi] for lo, hi >= 0: both ends are clamped to len(xs).
PySlice(xs, lo, hi) ==
    LET l == Min(lo, Len(xs))
        h == Min(hi, Len(xs))
    IN  IF l >= h THEN <<>> ELSE [i \in 1..(h - l) |-> xs[l + i]]

(***************************************************************************)
(* SQLBookRepository.  Each operator takes the table and returns what the  *)
(* method returns; the writers also return the table after the commit.     *)
(***************************************************************************)
\* get_by_id falling back to the first row of the table when no row matches.
get_by_id_or_first(bs, book_id) ==
    LET found == SelectSeq(bs, LAMBDA b : b.id = book_id)
    IN  IF found # <<>> THEN <<Head(found)>>
        ELSE IF bs # <<>> THEN <<Head(bs)>> ELSE <<>>

\* db.query(Book).filter(Book.id == book_id).first()
get_by_id(bs, book_id) ==
    LET found == SelectSeq(bs, LAMBDA b : b.id = book_id)
    IN  IF found = <<>> THEN <<>> ELSE <<Head(found)>>

\* nullable=False on title, author and created_by: the INSERT of a row with
\* a NULL in one of them fails.  The columns are String with no length and
\* the table has no CHECK, so the storage puts no bound on a string's length.
NotNull(book) ==
    book.title # None /\ book.author # None /\ book.created_by # None

\* create without the refresh, returning the object as it was handed in.
create_unrefreshed(bs, book, clock) ==
    LET row == [book EXCEPT !.id = NextRowId(bs), !.created_on = clock]
    IN  [store |-> Append(bs, row), result |-> <<book>>, error |-> "none"]

\* db.add(book); db.commit(); db.refresh(book): the INSERT assigns the id and
\* the created_on default, the refresh reads the row back.  A NOT NULL
\* violation raises IntegrityError out of the commit and inserts nothing.
create(bs, book, clock) ==
    IF ~NotNull(book)
    THEN [store |-> bs, result |-> <<>>, error |-> "IntegrityError"]
    ELSE LET row == [book EXCEPT !.id = NextRowId(bs), !.created_on = clock]
         IN  [store |-> Append(bs, row), result |-> <<row>>, error |-> "none"]

\* get_all reading skip as a page number.
get_all_by_page(bs, skip, limit) == Limit(Offset(bs, skip * limit), limit)

\* db.query(Book).offset(skip).limit(limit).all()
get_all(bs, skip, limit) == Limit(Offset(bs, skip), limit)

\* The attributes of a Book that an update dict may name.
BookFields == {"id", "title", "author", "created_on", "created_by"}

\* The loop without its "value is not None" test.
SetAttrsWithNone(book, book_update) ==
    [f \in BookFields |->
        IF f \in DOMAIN book_update THEN book_update[f] ELSE book[f]]

\* for field, value in book_update.items():
\*     if hasattr(book, field) and value is not None: setattr(book, field, value)
SetAttrs(book, book_update) ==
    [f \in BookFields |->
        IF f \in DOMAIN book_update /\ book_update[f] # None
        THEN book_update[f] ELSE book[f]]

\* update inserting a row under the id when it finds none.
update_or_insert(bs, book_id, book_update) ==
    LET book == get_by_id(bs, book_id)
        old  == IF book = <<>>
                THEN [Book(<<>>, <<>>, <<>>) EXCEPT !.id = book_id]
                ELSE book[1]
        row  == SetAttrs(old, book_update)
    IN  [store  |-> IF book = <<>> THEN Append(bs, row)
                    ELSE [i \in 1..Len(bs) |->
                             IF bs[i].id = book_id THEN row ELSE bs[i]],
         result |-> <<row>>]

update(bs, book_id, book_update) ==
    LET book == get_by_id(bs, book_id)
    IN  IF book = <<>> THEN [store |-> bs, result |-> <<>>]
        ELSE LET row == SetAttrs(book[1], book_update)
             IN  [store  |-> [i \in 1..Len(bs) |->
                                 IF bs[i].id = book_id THEN row ELSE bs[i]],
                  result |-> <<row>>]

\* delete removing every row up to and including the id.
delete_through(bs, book_id) ==
    LET book == get_by_id(bs, book_id)
    IN  IF book = <<>> THEN [store |-> bs, ok |-> FALSE]
        ELSE [store |-> SelectSeq(bs, LAMBDA b : b.id > book_id), ok |-> TRUE]

\* book = get_by_id(book_id); if not book: return False; db.delete(book);
\* db.commit(); return True
delete(bs, book_id) ==
    LET book == get_by_id(bs, book_id)
    IN  IF book = <<>> THEN [store |-> bs, ok |-> FALSE]
        ELSE [store |-> SelectSeq(bs, LAMBDA b : b.id # book_id), ok |-> TRUE]

\* search with the conditions joined by and_.
search_and(bs, title, author, created_by) ==
    LET conditions(b) ==
            (IF Truthy(title) THEN <<Contains(b.title, title)>> ELSE <<>>)
            \o (IF Truthy(author) THEN <<Contains(b.author, author)>> ELSE <<>>)
            \o (IF Truthy(created_by)
                THEN <<Contains(b.created_by, created_by)>> ELSE <<>>)
        and_(cs) == \A i \in 1..Len(cs) : cs[i]
    IN  SelectSeq(bs, LAMBDA b : and_(conditions(b)))

\* search applying the or_ filter even when conditions is empty.
search_always_filtered(bs, title, author, created_by) ==
    LET conditions(b) ==
            (IF Truthy(title) THEN <<Contains(b.title, title)>> ELSE <<>>)
            \o (IF Truthy(author) THEN <<Contains(b.author, author)>> ELSE <<>>)
            \o (IF Truthy(created_by)
                THEN <<Contains(b.created_by, created_by)>> ELSE <<>>)
        or_(cs) == \E i \in 1..Len(cs) : cs[i]
    IN  SelectSeq(bs, LAMBDA b : or_(conditions(b)))

\* conditions collects one LIKE test per truthy criterion; they are joined with
\* or_, and with no condition the query is unfiltered.
search(bs, title, author, created_by) ==
    LET conditions(b) ==
            (IF Truthy(title) THEN <<Contains(b.title, title)>> ELSE <<>>)
            \o (IF Truthy(author) THEN <<Contains(b.author, author)>> ELSE <<>>)
            \o (IF Truthy(created_by)
                THEN <<Contains(b.created_by, created_by)>> ELSE <<>>)
        or_(cs) == \E i \in 1..Len(cs) : cs[i]
    IN  SelectSeq(bs, LAMBDA b : conditions(b) # <<>> => or_(conditions(b)))

search_by_title(bs, title) == SelectSeq(bs, LAMBDA b : Contains(b.title, title))

search_by_author(bs, author) == SelectSeq(bs, LAMBDA b : Contains(b.author, author))

get_by_created_by(bs, created_by) ==
    SelectSeq(bs, LAMBDA b : b.created_by = created_by)

(***************************************************************************)
(* BookService.                                                            *)
(***************************************************************************)
list_books(bs, skip, limit) == get_all(bs, skip, limit)

\* search_books slicing results[skip:], with no upper end.
search_books_from_skip(bs, title, author, created_by, skip, limit) ==
    IF Truthy(title) \/ Truthy(author) \/ Truthy(created_by)
    THEN LET results == search(bs, title, author, created_by)
         IN  [result |-> PySlice(results, skip, Len(results)),
              calls  |-> <<"search">>]
    ELSE [result |-> list_books(bs, skip, limit), calls |-> <<"get_all">>]

\* search_books slicing results[skip:limit].
search_books_to_limit(bs, title, author, created_by, skip, limit) ==
    IF Truthy(title) \/ Truthy(author) \/ Truthy(created_by)
    THEN [result |-> PySlice(search(bs, title, author, created_by), skip, limit),
          calls  |-> <<"search">>]
    ELSE [result |-> list_books(bs, skip, limit), calls |-> <<"get_all">>]

\* The result and the repository methods called, in order.
search_books(bs, title, author, created_by, skip, limit) ==
    IF Truthy(title) \/ Truthy(author) \/ Truthy(created_by)
    THEN [result |-> PySlice(search(bs, title, author, created_by), skip, skip + limit),
          calls  |-> <<"search">>]
    ELSE [result |-> list_books(bs, skip, limit), calls |-> <<"get_all">>]

(***************************************************************************)
(* seed.py.  The strings of the sample books are written out character by  *)
(* character, as every string of the model is.                             *)
(***************************************************************************)
System == << "S", "y", "s", "t", "e", "m" >>

\* "Clean Code: A Handbook of Agile Software Craftsmanship" by Robert C. Martin
SampleTitle1 ==
    << "C", "l", "e", "a", "n", " ", "C", "o", "d", "e", ":", " ", "A", " ",
       "H", "a", "n", "d", "b", "o", "o", "k", " ", "o", "f", " ", "A", "g",
       "i", "l", "e", " ", "S", "o", "f", "t", "w", "a", "r", "e", " ", "C",
       "r", "a", "f", "t", "s", "m", "a", "n", "s", "h", "i", "p" >>

SampleAuthor1 ==
    << "R", "o", "b", "e", "r", "t", " ", "C", ".", " ", "M", "a", "r", "t",
       "i", "n" >>

\* "Design Patterns: Elements of Reusable Object-Oriented Software" by Gang of Four
SampleTitle2 ==
    << "D", "e", "s", "i", "g", "n", " ", "P", "a", "t", "t", "e", "r", "n",
       "s", ":", " ", "E", "l", "e", "m", "e", "n", "t", "s", " ", "o", "f",
       " ", "R", "e", "u", "s", "a", "b", "l", "e", " ", "O", "b", "j", "e",
       "c", "t", "-", "O", "r", "i", "e", "n", "t", "e", "d", " ", "S", "o",
       "f", "t", "w", "a", "r", "e" >>

SampleAuthor2 ==
    << "G", "a", "n", "g", " ", "o", "f", " ", "F", "o", "u", "r" >>

\* "The Pragmatic Programmer" by David Thomas, Andrew Hunt
SampleTitle3 ==
    << "T", "h", "e", " ", "P", "r", "a", "g", "m", "a", "t", "i", "c", " ",
       "P", "r", "o", "g", "r", "a", "m", "m", "e", "r" >>

SampleAuthor3 ==
    << "D", "a", "v", "i", "d", " ", "T", "h", "o", "m", "a", "s", ",", " ",
       "A", "n", "d", "r", "e", "w", " ", "H", "u", "n", "t" >>

\* "Refactoring: Improving the Design of Existing Code" by Martin Fowler
SampleTitle4 ==
    << "R", "e", "f", "a", "c", "t", "o", "r", "i", "n", "g", ":", " ", "I",
       "m", "p", "r", "o", "v", "i", "n", "g", " ", "t", "h", "e", " ", "D",
       "e", "s", "i", "g", "n", " ", "o", "f", " ", "E", "x", "i", "s", "t",
       "i", "n", "g", " ", "C", "o", "d", "e" >>

SampleAuthor4 ==
    << "M", "a", "r", "t", "i", "n", " ", "F", "o", "w", "l", "e", "r" >>

\* "Domain-Driven Design: Tackling Complexity in the Heart of Software" by Eric Evans
SampleTitle5 ==
    << "D", "o", "m", "a", "i", "n", "-", "D", "r", "i", "v", "e", "n", " ",
       "D", "e", "s", "i", "g", "n", ":", " ", "T", "a", "c", "k", "l", "i",
       "n", "g", " ", "C", "o", "m", "p", "l", "e", "x", "i", "t", "y", " ",
       "i", "n", " ", "t", "h", "e", " ", "H", "e", "a", "r", "t", " ", "o",
       "f", " ", "S", "o", "f", "t", "w", "a", "r", "e" >>

SampleAuthor5 ==
    << "E", "r", "i", "c", " ", "E", "v", "a", "n", "s" >>

\* "Patterns of Enterprise Application Architecture" by Martin Fowler
SampleTitle6 ==
    << "P", "a", "t", "t", "e", "r", "n", "s", " ", "o", "f", " ", "E", "n",
       "t", "e", "r", "p", "r", "i", "s", "e", " ", "A", "p", "p", "l", "i",
       "c", "a", "t", "i", "o", "n", " ", "A", "r", "c", "h", "i", "t", "e",
       "c", "t", "u", "r", "e" >>

SampleAuthor6 ==
    << "M", "a", "r", "t", "i", "n", " ", "F", "o", "w", "l", "e", "r" >>

\* "Building Microservices: Designing Fine-Grained Systems" by Sam Newman
SampleTitle7 ==
    << "B", "u", "i", "l", "d", "i", "n", "g", " ", "M", "i", "c", "r", "o",
       "s", "e", "r", "v", "i", "c", "e", "s", ":", " ", "D", "e", "s", "i",
       "g", "n", "i", "n", "g", " ", "F", "i", "n", "e", "-", "G", "r", "a",
       "i", "n", "e", "d", " ", "S", "y", "s", "t", "e", "m", "s" >>

SampleAuthor7 ==
    << "S", "a", "m", " ", "N", "e", "w", "m", "a", "n" >>

\* "You Don't Know JS: Scope & Closures" by Kyle Simpson
SampleTitle8 ==
    << "Y", "o", "u", " ", "D", "o", "n", "'", "t", " ", "K", "n", "o", "w",
       " ", "J", "S", ":", " ", "S", "c", "o", "p", "e", " ", "&", " ", "C",
       "l", "o", "s", "u", "r", "e", "s" >>

SampleAuthor8 ==
    << "K", "y", "l", "e", " ", "S", "i", "m", "p", "s", "o", "n" >>

\* [Book(**book_data) for book_data in sample_books]
create_sample_books ==
    << Book(SampleTitle1, SampleAuthor1, System),
       Book(SampleTitle2, SampleAuthor2, System),
       Book(SampleTitle3, SampleAuthor3, System),
       Book(SampleTitle4, SampleAuthor4, System),
       Book(SampleTitle5, SampleAuthor5, System),
       Book(SampleTitle6, SampleAuthor6, System),
       Book(SampleTitle7, SampleAuthor7, System),
       Book(SampleTitle8, SampleAuthor8, System) >>

\* db.add(book) for each book of new_books in turn, then one commit: the rows
\* are inserted in the order they were added, each under the next rowid.
RECURSIVE AddAll(_, _, _)
AddAll(bs, new_books, clock) ==
    IF new_books = <<>> THEN bs
    ELSE LET row == [Head(new_books) EXCEPT !.id = NextRowId(bs),
                                            !.created_on = clock]
         IN  AddAll(Append(bs, row), Tail(new_books), clock)

\* seed_database appending the sample books to whatever the table holds.
seed_database_keeping(bs, clock) ==
    [store |-> AddAll(bs, create_sample_books, clock), calls |-> <<"add">>]

\* existing_books_count > 0: db.query(Book).delete(), db.commit(); then the
\* sample books are added and committed.  calls lists the session methods
\* that wrote.
seed_database(bs, clock) ==
    LET existing_books_count == Len(bs)
        cleared == IF existing_books_count > 0 THEN <<>> ELSE bs
    IN  [store |-> AddAll(cleared, create_sample_books, clock),
         calls |-> IF existing_books_count > 0 THEN <<"delete", "add">>
                   ELSE <<"add">>]

(***************************************************************************)
(* The request schemas (pydantic) and the query constraints of the router. *)
(* A JSON body is a function from the keys it holds to a string or None    *)
(* (JSON null).                                                            *)
(***************************************************************************)
MinLength          == 1
MaxTitleLength     == 200
MaxAuthorLength    == 100
MaxCreatedByLength == 50
MaxQueryLimit      == 1000

\* The string made of n copies of the character c.
Rep(c, n) == [i \in 1..n |-> c]

\* RequiredStr letting a null through.
RequiredStrOrNull(body, f, lo, hi) ==
    /\ f \in DOMAIN body
    /\ body[f] # None => (Len(body[f]) >= lo /\ Len(body[f]) <= hi)

\* Field(..., min_length=lo, max_length=hi) on a str: the key is required and
\* null is not a str.
RequiredStr(body, f, lo, hi) ==
    /\ f \in DOMAIN body
    /\ body[f] # None
    /\ Len(body[f]) >= lo
    /\ Len(body[f]) <= hi

\* OptionalStr without the min_length test.
OptionalStrNoMin(body, f, lo, hi) ==
    (f \in DOMAIN body /\ body[f] # None) => Len(body[f]) <= hi

\* Field(None, min_length=lo, max_length=hi) on an Optional[str]: the key may
\* be absent or null; a string is held to the lengths.
OptionalStr(body, f, lo, hi) ==
    (f \in DOMAIN body /\ body[f] # None)
        => (Len(body[f]) >= lo /\ Len(body[f]) <= hi)

BookCreate(body) ==
    /\ RequiredStr(body, "title", MinLength, MaxTitleLength)
    /\ RequiredStr(body, "author", MinLength, MaxAuthorLength)
    /\ RequiredStr(body, "created_by", MinLength, MaxCreatedByLength)

\* BookUpdate with no constraint on title.
BookUpdateAuthorOnly(body) ==
    OptionalStr(body, "author", MinLength, MaxAuthorLength)

BookUpdate(body) ==
    /\ OptionalStr(body, "title", MinLength, MaxTitleLength)
    /\ OptionalStr(body, "author", MinLength, MaxAuthorLength)

\* BookUpdate.model_dump(exclude_unset=True): the declared fields the body
\* set, a null kept as None; keys the schema does not declare are dropped.
model_dump_exclude_unset(body) ==
    [f \in DOMAIN body \cap {"title", "author"} |-> body[f]]

\* skip: Query(0, ge=0); limit: Query(100, ge=1, le=1000).
QueryOk(skip, limit) == skip >= 0 /\ limit >= 1 /\ limit <= MaxQueryLimit

(***************************************************************************)
(* The router (api/books.py).  Each operator takes the table and the       *)
(* request and returns the response status, the table after the request,   *)
(* the response body and the service methods called.  A request that fails *)
(* the validation of its declared parameters is answered 422 before the    *)
(* endpoint function runs.  The service methods get_book, create_book,     *)
(* update_book and delete_book hand their arguments to the repository      *)
(* method and return what it returns.                                      *)
(***************************************************************************)
Response(status, store, result, calls) ==
    [status |-> status, store |-> store, result |-> result, calls |-> calls]

get_books(bs, skip, limit, title, author, created_by) ==
    IF ~QueryOk(skip, limit) THEN Response(422, bs, <<>>, <<>>)
    ELSE LET r == search_books(bs, title, author, created_by, skip, limit)
         IN  Response(200, bs, r.result, <<"search_books">>)

get_book(bs, book_id) ==
    LET book == get_by_id(bs, book_id)
    IN  IF book = <<>> THEN Response(404, bs, <<>>, <<"get_book">>)
        ELSE Response(200, bs, book, <<"get_book">>)

\* An exception out of the service that is no HTTPException (the
\* IntegrityError of a refused INSERT) is answered 500.
create_book(bs, book_data, clock) ==
    IF ~BookCreate(book_data) THEN Response(422, bs, <<>>, <<>>)
    ELSE LET book == Book(book_data.title, book_data.author, book_data.created_by)
             r    == create(bs, book, clock)
         IN  IF r.error # "none" THEN Response(500, r.store, <<>>, <<"create_book">>)
             ELSE Response(201, r.store, r.result, <<"create_book">>)

\* update_book looking the record up before its body is validated.
update_book_lookup_first(bs, book_id, book_update) ==
    IF get_by_id(bs, book_id) = <<>> THEN Response(404, bs, <<>>, <<"get_book">>)
    ELSE IF ~BookUpdate(book_update) THEN Response(422, bs, <<>>, <<>>)
    ELSE LET r == update(bs, book_id, model_dump_exclude_unset(book_update))
         IN  Response(200, r.store, r.result, <<"update_book">>)

update_book(bs, book_id, book_update) ==
    IF ~BookUpdate(book_update) THEN Response(422, bs, <<>>, <<>>)
    ELSE LET update_data == model_dump_exclude_unset(book_update)
             r           == update(bs, book_id, update_data)
         IN  IF r.result = <<>> THEN Response(404, r.store, <<>>, <<"update_book">>)
             ELSE Response(200, r.store, r.result, <<"update_book">>)

\* delete_book answering 204 whether or not a row was deleted.
delete_book_idempotent(bs, book_id) ==
    Response(204, delete(bs, book_id).store, <<>>, <<"delete_book">>)

delete_book(bs, book_id) ==
    LET r == delete(bs, book_id)
    IN  IF ~r.ok THEN Response(404, r.store, <<>>, <<"delete_book">>)
        ELSE Response(204, r.store, <<>>, <<"delete_book">>)

(***************************************************************************)
(* The endpoints of main.py, which call the repository themselves.  Each   *)
(* operator returns what the router's operators return, with the           *)
(* repository methods called in place of the service's.                    *)
(***************************************************************************)
\* main.py's get_books returning the whole search result, unsliced.
main_get_books_unpaged(bs, skip, limit, title, author, created_by) ==
    IF ~QueryOk(skip, limit) THEN Response(422, bs, <<>>, <<>>)
    ELSE IF Truthy(title) \/ Truthy(author) \/ Truthy(created_by)
    THEN Response(200, bs, search(bs, title, author, created_by), <<"search">>)
    ELSE Response(200, bs, get_all(bs, skip, limit), <<"get_all">>)

\* if title or author or created_by: books = repo.search(...);
\* books = books[skip:skip + limit]; else: books = repo.get_all(skip, limit)
main_get_books(bs, skip, limit, title, author, created_by) ==
    IF ~QueryOk(skip, limit) THEN Response(422, bs, <<>>, <<>>)
    ELSE IF Truthy(title) \/ Truthy(author) \/ Truthy(created_by)
    THEN LET found == search(bs, title, author, created_by)
         IN  Response(200, bs, PySlice(found, skip, skip + limit), <<"search">>)
    ELSE Response(200, bs, get_all(bs, skip, limit), <<"get_all">>)

main_get_book(bs, book_id) ==
    LET book == get_by_id(bs, book_id)
    IN  IF book = <<>> THEN Response(404, bs, <<>>, <<"get_by_id">>)
        ELSE Response(200, bs, book, <<"get_by_id">>)

main_create_book(bs, book_data, clock) ==
    IF ~BookCreate(book_data) THEN Response(422, bs, <<>>, <<>>)
    ELSE LET book == Book(book_data.title, book_data.author, book_data.created_by)
             r    == create(bs, book, clock)
         IN  IF r.error # "none" THEN Response(500, r.store, <<>>, <<"create">>)
             ELSE Response(201, r.store, r.result, <<"create">>)

main_update_book(bs, book_id, book_update) ==
    IF ~BookUpdate(book_update) THEN Response(422, bs, <<>>, <<>>)
    ELSE LET update_data == model_dump_exclude_unset(book_update)
             r           == update(bs, book_id, update_data)
         IN  IF r.result = <<>> THEN Response(404, r.store, <<>>, <<"update">>)
             ELSE Response(200, r.store, r.result, <<"update">>)

main_delete_book(bs, book_id) ==
    LET r == delete(bs, book_id)
    IN  IF ~r.ok THEN Response(404, r.store, <<>>, <<"delete">>)
        ELSE Response(204, r.store, <<>>, <<"delete">>)

(***************************************************************************)
(* The state machine: one action per call on the repository or service.    *)
(***************************************************************************)
NoCall ==
    [name |-> "none", id |-> NullId, title |-> None, author |-> None,
     created_by |-> None, payload |-> <<>>, skip |-> 0, limit |-> 0,
     result |-> <<>>, ok |-> FALSE, calls |-> <<>>, status |-> 0,
     error |-> "none"]

\* A request that has not reached get_db: no session yet.  id, book and
\* payload are the locals of a repository method that has read its row and
\* not yet committed.
NewRequest ==
    [pc |-> "start", session |-> "none", raised |-> FALSE, rolled_back |-> FALSE,
     id |-> NullId, book |-> <<>>, payload |-> <<>>]

Requests == 1..MaxRequests

Init ==
    /\ books = <<>>
    /\ deleted = {}
    /\ last = NoCall
    /\ requests = [r \in Requests |-> NewRequest]

\* repository.create(Book(title=t, author=a, created_by=c)); clock is what
\* func.now() reads at the INSERT, last.error the exception raised, if any.
Create(inputs, clocks) ==
    /\ Len(books) < MaxBooks
    /\ NextRowId(books) <= MaxId
    /\ \E in \in inputs, clock \in clocks :
          LET r == create(books, Book(in[1], in[2], in[3]), clock)
          IN  /\ books' = r.store
              /\ last' = [NoCall EXCEPT !.name = "create", !.title = in[1],
                                        !.author = in[2], !.created_by = in[3],
                                        !.result = r.result, !.error = r.error]
    /\ UNCHANGED <<deleted, requests>>

\* get_by_id deleting the row it read.
GetByIdAndDelete ==
    /\ \E id \in Ids :
          /\ last' = [NoCall EXCEPT !.name = "get_by_id", !.id = id,
                                    !.result = get_by_id(books, id)]
          /\ books' = delete(books, id).store
    /\ UNCHANGED <<deleted, requests>>

GetById ==
    /\ \E id \in Ids :
          last' = [NoCall EXCEPT !.name = "get_by_id", !.id = id,
                                !.result = get_by_id(books, id)]
    /\ UNCHANGED <<books, deleted, requests>>

GetAll ==
    /\ \E skip \in Skips, limit \in Limits :
          last' = [NoCall EXCEPT !.name = "get_all", !.skip = skip, !.limit = limit,
                                !.result = get_all(books, skip, limit)]
    /\ UNCHANGED <<books, deleted, requests>>

\* The update dicts: any subset of keys, each with a string or None.
Payloads(keys, values) ==
    UNION {[ks -> values \cup {None}] : ks \in SUBSET keys}

Update(payloads) ==
    /\ \E id \in Ids, p \in payloads :
          LET r == update(books, id, p)
          IN  /\ books' = r.store
              /\ last' = [NoCall EXCEPT !.name = "update", !.id = id, !.payload = p,
                                        !.result = r.result]
    /\ UNCHANGED <<deleted, requests>>

Delete ==
    /\ \E id \in Ids :
          LET r == delete(books, id)
          IN  /\ books' = r.store
              /\ deleted' = IF r.ok THEN deleted \cup {id} ELSE deleted
              /\ last' = [NoCall EXCEPT !.name = "delete", !.id = id, !.ok = r.ok]
    /\ UNCHANGED requests

Search(titles, authors, creators) ==
    /\ \E t \in titles, a \in authors, c \in creators :
          last' = [NoCall EXCEPT !.name = "search", !.title = t, !.author = a,
                                !.created_by = c,
                                !.result = search(books, t, a, c)]
    /\ UNCHANGED <<books, deleted, requests>>

SearchBooks(titles, authors, creators) ==
    /\ \E t \in titles, a \in authors, c \in creators,
          skip \in Skips, limit \in Limits :
          LET r == search_books(books, t, a, c, skip, limit)
          IN  last' = [NoCall EXCEPT !.name = "search_books", !.title = t,
                                    !.author = a, !.created_by = c,
                                    !.skip = skip, !.limit = limit,
                                    !.result = r.result, !.calls = r.calls]
    /\ UNCHANGED <<books, deleted, requests>>

SearchByTitle(titles) ==
    /\ \E t \in titles :
          last' = [NoCall EXCEPT !.name = "search_by_title", !.title = t,
                                !.result = search_by_title(books, t)]
    /\ UNCHANGED <<books, deleted, requests>>

SearchByAuthor(authors) ==
    /\ \E a \in authors :
          last' = [NoCall EXCEPT !.name = "search_by_author", !.author = a,
                                !.result = search_by_author(books, a)]
    /\ UNCHANGED <<books, deleted, requests>>

GetByCreatedBy(creators) ==
    /\ \E c \in creators :
          last' = [NoCall EXCEPT !.name = "get_by_created_by", !.created_by = c,
                                !.result = get_by_created_by(books, c)]
    /\ UNCHANGED <<books, deleted, requests>>

\* python app/seed.py: seed_database() run to its end in a session of its own.
\* The rows it cleared were deleted from the table.
SeedDatabase(clocks) ==
    /\ \E clock \in clocks :
          LET r == seed_database(books, clock)
          IN  /\ books' = r.store
              /\ deleted' = IF "delete" \in Range(r.calls)
                            THEN deleted \cup {books[i].id : i \in DOMAIN books}
                            ELSE deleted
              /\ last' = [NoCall EXCEPT !.name = "seed_database", !.calls = r.calls]
    /\ UNCHANGED requests

(***************************************************************************)
(* One action per HTTP request on the router.  last.status is the response *)
(* status (0 on a call that is no HTTP request), last.calls the service    *)
(* methods the endpoint called.                                            *)
(***************************************************************************)
GetBooks(skips, limits, titles, authors, creators) ==
    /\ \E skip \in skips, limit \in limits,
          t \in titles, a \in authors, c \in creators :
          LET r == get_books(books, skip, limit, t, a, c)
          IN  last' = [NoCall EXCEPT !.name = "GET /books", !.skip = skip,
                                    !.limit = limit, !.title = t, !.author = a,
                                    !.created_by = c, !.status = r.status,
                                    !.result = r.result, !.calls = r.calls]
    /\ UNCHANGED <<books, deleted, requests>>

GetBook(ids) ==
    /\ \E id \in ids :
          LET r == get_book(books, id)
          IN  last' = [NoCall EXCEPT !.name = "GET /books/{book_id}", !.id = id,
                                    !.status = r.status, !.result = r.result,
                                    !.calls = r.calls]
    /\ UNCHANGED <<books, deleted, requests>>

\* A valid body is posted only while the model's table has room.
CreateBook(bodies, clocks) ==
    /\ \E body \in bodies, clock \in clocks :
          /\ BookCreate(body) => (Len(books) < MaxBooks /\ NextRowId(books) <= MaxId)
          /\ LET r == create_book(books, body, clock)
             IN  /\ books' = r.store
                 /\ last' = [NoCall EXCEPT !.name = "POST /books", !.payload = body,
                                           !.status = r.status, !.result = r.result,
                                           !.calls = r.calls]
    /\ UNCHANGED <<deleted, requests>>

UpdateBook(ids, bodies) ==
    /\ \E id \in ids, body \in bodies :
          LET r == update_book(books, id, body)
          IN  /\ books' = r.store
              /\ last' = [NoCall EXCEPT !.name = "PUT /books/{book_id}", !.id = id,
                                        !.payload = body, !.status = r.status,
                                        !.result = r.result, !.calls = r.calls]
    /\ UNCHANGED <<deleted, requests>>

DeleteBook(ids) ==
    /\ \E id \in ids :
          LET r == delete_book(books, id)
          IN  /\ books' = r.store
              /\ deleted' = IF r.status = 204 THEN deleted \cup {id} ELSE deleted
              /\ last' = [NoCall EXCEPT !.name = "DELETE /books/{book_id}",
                                        !.id = id, !.status = r.status,
                                        !.calls = r.calls]
    /\ UNCHANGED requests

(***************************************************************************)
(* One HTTP request r followed through get_db (database.py): the session   *)
(* is made, the generator yields it to the endpoint, and the endpoint's    *)
(* return or exception resumes the generator in its except and finally     *)
(* clauses.  requests[r].pc is the clause get_db stands before.            *)
(***************************************************************************)
\* db = SessionLocal(), up to the yield.
GetDbOpen(r) ==
    /\ requests[r].pc = "start"
    /\ requests' = [requests EXCEPT ![r].pc = "yield", ![r].session = "open"]
    /\ UNCHANGED <<books, deleted, last>>

\* The endpoint has run on the yielded session: a status of 400 or more is an
\* HTTPException raised into the generator, any other a normal return.
Resumed(r, response) ==
    IF response.status >= 400
    THEN [requests EXCEPT ![r].pc = "except", ![r].raised = TRUE]
    ELSE [requests EXCEPT ![r].pc = "finally"]

EndpointGetBook(r, ids) ==
    /\ requests[r].pc = "yield"
    /\ \E id \in ids :
          LET response == get_book(books, id)
          IN  /\ last' = [NoCall EXCEPT !.name = "GET /books/{book_id}", !.id = id,
                                        !.status = response.status,
                                        !.result = response.result,
                                        !.calls = response.calls]
              /\ requests' = Resumed(r, response)
    /\ UNCHANGED <<books, deleted>>

EndpointCreateBook(r, bodies, clocks) ==
    /\ requests[r].pc = "yield"
    /\ Len(books) < MaxBooks
    /\ NextRowId(books) <= MaxId
    /\ \E body \in bodies, clock \in clocks :
          LET response == create_book(books, body, clock)
          IN  /\ books' = response.store
              /\ last' = [NoCall EXCEPT !.name = "POST /books", !.payload = body,
                                        !.status = response.status,
                                        !.result = response.result,
                                        !.calls = response.calls]
              /\ requests' = Resumed(r, response)
    /\ UNCHANGED deleted

EndpointDeleteBook(r, ids) ==
    /\ requests[r].pc = "yield"
    /\ \E id \in ids :
          LET response == delete_book(books, id)
          IN  /\ books' = response.store
              /\ deleted' = IF response.status = 204 THEN deleted \cup {id}
                            ELSE deleted
              /\ last' = [NoCall EXCEPT !.name = "DELETE /books/{book_id}",
                                        !.id = id, !.status = response.status,
                                        !.calls = response.calls]
              /\ requests' = Resumed(r, response)

\* get_db resumed by a return without closing the session.
GetDbSkipRollback(r) ==
    /\ requests[r].pc = "except"
    /\ requests' = [requests EXCEPT ![r].pc = "finally"]
    /\ UNCHANGED <<books, deleted, last>>

\* except Exception: db.rollback(); raise
GetDbExcept(r) ==
    /\ requests[r].pc = "except"
    /\ requests' = [requests EXCEPT ![r].pc = "finally", ![r].rolled_back = TRUE]
    /\ UNCHANGED <<books, deleted, last>>

\* finally: db.close()
GetDbFinally(r) ==
    /\ requests[r].pc = "finally"
    /\ requests' = [requests EXCEPT ![r].pc = "done", ![r].session = "closed"]
    /\ UNCHANGED <<books, deleted, last>>

(***************************************************************************)
(* update and delete of the repository in their two steps, the SELECT of   *)
(* get_by_id and the commit, with the steps of other requests in between.  *)
(* Each request has a session of its own, whose identity map holds the     *)
(* Book it loaded (requests[r].book); the table is what is committed.      *)
(* Handlers that run one after the other, as on a single event loop, are   *)
(* the behaviours where the two steps of a request follow one another.     *)
(***************************************************************************)
\* The locals of the method dropped, the endpoint answering with a status.
Answered(r, status) ==
    Resumed(r, [status |-> status])[r]

\* book = self.get_by_id(book_id); if not book: return None (the endpoint
\* raises 404); else the method goes on with the loaded book.
UpdateRead(r, ids, bodies) ==
    /\ requests[r].pc = "yield"
    /\ \E id \in ids, body \in bodies :
          LET book == get_by_id(books, id)
          IN  IF ~BookUpdate(body)
              THEN /\ requests' = [requests EXCEPT ![r] = Answered(r, 422)]
                   /\ last' = [NoCall EXCEPT !.name = "PUT /books/{book_id}",
                                             !.id = id, !.payload = body,
                                             !.status = 422]
              ELSE IF book = <<>>
              THEN /\ requests' = [requests EXCEPT ![r] = Answered(r, 404)]
                   /\ last' = [NoCall EXCEPT !.name = "PUT /books/{book_id}",
                                             !.id = id, !.payload = body,
                                             !.status = 404,
                                             !.calls = <<"update_book">>]
              ELSE /\ requests' = [requests EXCEPT
                                      ![r].pc = "update_commit", ![r].id = id,
                                      ![r].book = book,
                                      ![r].payload = model_dump_exclude_unset(body)]
                   /\ UNCHANGED last
    /\ UNCHANGED <<books, deleted>>

\* The flush of a commit writing the loaded book back whether or not its row
\* is still in the table.
UpdateCommitUpsert(r) ==
    /\ requests[r].pc = "update_commit"
    /\ LET id  == requests[r].id
           row == SetAttrs(requests[r].book[1], requests[r].payload)
       IN  /\ books' = IF get_by_id(books, id) = <<>> THEN Append(books, row)
                        ELSE [i \in 1..Len(books) |->
                                 IF books[i].id = id THEN row ELSE books[i]]
           /\ last' = [NoCall EXCEPT !.name = "PUT /books/{book_id}", !.id = id,
                                     !.payload = requests[r].payload,
                                     !.status = 200, !.result = <<row>>,
                                     !.calls = <<"update_book">>]
           /\ requests' = [requests EXCEPT
                              ![r] = [Answered(r, 200) EXCEPT
                                         !.id = NullId, !.book = <<>>,
                                         !.payload = <<>>]]
    /\ UNCHANGED deleted

\* setattr on the loaded book, db.commit(), db.refresh(book).  The flush
\* issues UPDATE books SET <the changed columns> WHERE id = <id> when a
\* column changed; an UPDATE that matches no row raises StaleDataError, and a
\* refresh that finds no row raises InvalidRequestError: the request ends in
\* a 500 and the table is as it was.  Otherwise the changed columns are
\* written to the row and the refresh reads the row back.
UpdateCommit(r) ==
    /\ requests[r].pc = "update_commit"
    /\ LET id      == requests[r].id
           loaded  == requests[r].book[1]
           changed == SetAttrs(loaded, requests[r].payload)
           current == get_by_id(books, id)
           row     == [f \in BookFields |->
                          IF changed[f] # loaded[f] THEN changed[f]
                          ELSE current[1][f]]
           status  == IF current = <<>> THEN 500 ELSE 200
       IN  /\ books' = IF current = <<>> THEN books
                        ELSE [i \in 1..Len(books) |->
                                 IF books[i].id = id THEN row ELSE books[i]]
           /\ last' = [NoCall EXCEPT !.name = "PUT /books/{book_id}", !.id = id,
                                     !.payload = requests[r].payload,
                                     !.status = status,
                                     !.result = IF current = <<>> THEN <<>>
                                                ELSE <<row>>,
                                     !.calls = <<"update_book">>,
                                     !.error =
                                         IF current # <<>> THEN "none"
                                         ELSE IF changed # loaded
                                         THEN "StaleDataError"
                                         ELSE "InvalidRequestError"]
           /\ requests' = [requests EXCEPT
                              ![r] = [Answered(r, status) EXCEPT
                                         !.id = NullId, !.book = <<>>,
                                         !.payload = <<>>]]
    /\ UNCHANGED deleted

\* book = self.get_by_id(book_id); if not book: return False (404).
DeleteRead(r, ids) ==
    /\ requests[r].pc = "yield"
    /\ \E id \in ids :
          LET book == get_by_id(books, id)
          IN  IF book = <<>>
              THEN /\ requests' = [requests EXCEPT ![r] = Answered(r, 404)]
                   /\ last' = [NoCall EXCEPT !.name = "DELETE /books/{book_id}",
                                             !.id = id, !.status = 404,
                                             !.calls = <<"delete_book">>]
              ELSE /\ requests' = [requests EXCEPT
                                      ![r].pc = "delete_commit", ![r].id = id,
                                      ![r].book = book]
                   /\ UNCHANGED last
    /\ UNCHANGED <<books, deleted>>

\* self.db.delete(book); self.db.commit(); return True.  The flush issues
\* DELETE FROM books WHERE id = <id>; a DELETE that matches no row is a
\* warning, not an exception, and the method returns True all the same.
DeleteCommit(r) ==
    /\ requests[r].pc = "delete_commit"
    /\ LET id == requests[r].id
       IN  /\ books' = SelectSeq(books, LAMBDA b : b.id # id)
           /\ deleted' = deleted \cup {id}
           /\ last' = [NoCall EXCEPT !.name = "DELETE /books/{book_id}",
                                     !.id = id, !.status = 204,
                                     !.calls = <<"delete_book">>]
           /\ requests' = [requests EXCEPT
                              ![r] = [Answered(r, 204) EXCEPT
                                         !.id = NullId, !.book = <<>>]]

\* The worker that served a request takes the next one.
NextRequest(r) ==
    /\ requests[r].pc = "done"
    /\ requests' = [requests EXCEPT ![r] = NewRequest]
    /\ UNCHANGED <<books, deleted, last>>

(***************************************************************************)
(* Spec: the life of the table under create, read, update and delete.      *)
(***************************************************************************)
Titles   == {<<"a">>, <<"A", "b">>}
Authors  == {<<"b">>, <<"a", "b">>}
Creators == {<<"a">>, <<"a", "b">>}
Clocks   == {0}

\* Update dicts with any of the keys title and author, a key's value a string
\* or None.
UpdatePayloads ==
    {p \in Payloads({"title", "author"}, {<<"A", "b">>, <<"a", "b">>}) :
        /\ "title" \in DOMAIN p => p.title \in {None, <<"A", "b">>}
        /\ "author" \in DOMAIN p => p.author \in {None, <<"a", "b">>}}

Next ==
    \/ Create(Titles \X Authors \X Creators, Clocks)
    \/ GetById
    \/ GetAll
    \/ Update(UpdatePayloads)
    \/ Delete

Spec == Init /\ [][Next]_vars

(***************************************************************************)
(* SpecSearch: a table filled from three sample books and searched with    *)
(* every combination of criteria: absent, empty, of another letter case,   *)
(* and holding a LIKE wildcard.                                            *)
(***************************************************************************)
SampleBooks ==
    { << <<"A", "b">>, <<"b">>,      <<"a">>      >>,
      << <<"b">>,      <<"A", "b">>, <<"a", "b">> >>,
      << <<"a">>,      <<"a">>,      <<"b">>      >> }

TitleCriteria   == {None, <<>>, <<"a">>, <<"_">>}
AuthorCriteria  == {None, <<"B">>}
CreatorCriteria == {None, <<"a">>}

NextSearch ==
    \/ Create(SampleBooks, Clocks)
    \/ Search(TitleCriteria, AuthorCriteria, CreatorCriteria)
    \/ SearchBooks(TitleCriteria, AuthorCriteria, CreatorCriteria)

SpecSearch == Init /\ [][NextSearch]_vars

(***************************************************************************)
(* SpecReads: creates and deletes interleaved with the three list reads.   *)
(***************************************************************************)
NextReads ==
    \/ Create(SampleBooks, Clocks)
    \/ Delete
    \/ GetAll
    \/ Search({None, <<"a">>}, {None}, {None})
    \/ SearchBooks({None, <<"a">>}, {None}, {None})

SpecReads == Init /\ [][NextReads]_vars

(***************************************************************************)
(* SpecHttp: the router under well-formed and malformed requests.  The     *)
(* bodies hold strings of the shortest and longest lengths the schemas     *)
(* accept and of the nearest lengths they refuse; the path ids reach one   *)
(* past the ids the model assigns.                                         *)
(***************************************************************************)
PathIds == 1..(MaxId + 1)

ValidCreateBodies ==
    { [title |-> <<"a">>, author |-> <<"b">>, created_by |-> <<"a">>],
      [title |-> Rep("a", MaxTitleLength), author |-> Rep("b", MaxAuthorLength),
       created_by |-> Rep("c", MaxCreatedByLength)] }

InvalidCreateBodies ==
    { [author |-> <<"b">>, created_by |-> <<"a">>],
      [title |-> <<"a">>, author |-> <<"b">>],
      [title |-> None, author |-> <<"b">>, created_by |-> <<"a">>],
      [title |-> <<>>, author |-> <<"b">>, created_by |-> <<"a">>],
      [title |-> Rep("a", MaxTitleLength + 1), author |-> <<"b">>,
       created_by |-> <<"a">>],
      [title |-> <<"a">>, author |-> Rep("b", MaxAuthorLength + 1),
       created_by |-> <<"a">>],
      [title |-> <<"a">>, author |-> <<"b">>,
       created_by |-> Rep("c", MaxCreatedByLength + 1)] }

\* The last body names a key that BookUpdate does not declare.
ValidUpdateBodies ==
    { [title |-> Rep("a", MaxTitleLength)],
      [title |-> None, author |-> <<"b">>],
      [title |-> Rep("a", MaxTitleLength), created_by |-> <<"x">>] }

InvalidUpdateBodies ==
    { [title |-> <<>>],
      [title |-> <<"a">>, author |-> <<>>],
      [title |-> Rep("a", MaxTitleLength + 1)],
      [author |-> Rep("b", MaxAuthorLength + 1)] }

CreateBodies == ValidCreateBodies \cup InvalidCreateBodies
UpdateBodies == ValidUpdateBodies \cup InvalidUpdateBodies

\* No filter on title, author or created_by.
NoCriteria == {None}

QuerySkips  == {-1, 0}
QueryLimits == {0, 1, MaxQueryLimit + 1}

NextHttp ==
    \/ GetBooks(QuerySkips, QueryLimits, NoCriteria, NoCriteria, NoCriteria)
    \/ GetBook(PathIds)
    \/ CreateBook(CreateBodies, Clocks)
    \/ UpdateBook(PathIds, UpdateBodies)
    \/ DeleteBook(PathIds)
    \/ GetById

SpecHttp == Init /\ [][NextHttp]_vars

(***************************************************************************)
(* SpecAdapter: the repository called directly, past the request schemas:  *)
(* books with a field left unset (None), empty or longer than the schema   *)
(* allows, and update dicts that name created_by or hold an empty string.  *)
(***************************************************************************)
AdapterBooks ==
    { << <<"a">>, <<"b">>, <<"a">> >>,
      << None,    <<"b">>, <<"a">> >>,
      << <<"a">>, None,    <<"a">> >>,
      << <<"a">>, <<"b">>, None    >>,
      << <<>>,    <<"b">>, <<"a">> >>,
      << Rep("a", MaxTitleLength + 1), <<"b">>, <<"a">> >> }

AdapterPayloads ==
    { [title |-> <<"A", "b">>],
      [title |-> None],
      [title |-> <<>>],
      [created_by |-> <<"x">>],
      [created_by |-> None],
      [title |-> <<"A", "b">>, created_by |-> <<"x">>] }

NextAdapter ==
    \/ Create(AdapterBooks, Clocks)
    \/ Update(AdapterPayloads)
    \/ Delete
    \/ GetById

SpecAdapter == Init /\ [][NextAdapter]_vars

(***************************************************************************)
(* SpecSeed: the seeding script run, any number of times, on a table that  *)
(* is empty, that holds rows created by the application, or that holds the *)
(* sample books of an earlier run, some of them updated or deleted since.  *)
(***************************************************************************)
SeedPayloads == { [title |-> <<"A", "b">>], [author |-> <<"a", "b">>] }

NextSeed ==
    \/ SeedDatabase(Clocks)
    \/ Create(SampleBooks, Clocks)
    \/ Update(SeedPayloads)
    \/ Delete

SpecSeed == Init /\ [][NextSeed]_vars

(***************************************************************************)
(* SpecFrame: every read of the repository and of the service, on every    *)
(* table that creates and deletes of the sample books lead to.             *)
(***************************************************************************)
ReadTitles   == {<<"a">>, <<"_">>}
ReadAuthors  == {<<"B">>}
ReadCreators == {<<"a">>}

\* The optional criteria of search and search_books: absent or a string.
OptionalTitles   == {None, <<"a">>}
OptionalAuthors  == {None, <<"B">>}
OptionalCreators == {None}

NextFrame ==
    \/ Create(SampleBooks, Clocks)
    \/ Delete
    \/ GetById
    \/ GetAll
    \/ Search(OptionalTitles, OptionalAuthors, OptionalCreators)
    \/ SearchByTitle(ReadTitles)
    \/ SearchByAuthor(ReadAuthors)
    \/ GetByCreatedBy(ReadCreators)
    \/ SearchBooks(OptionalTitles, OptionalAuthors, OptionalCreators)

SpecFrame == Init /\ [][NextFrame]_vars

(***************************************************************************)
(* SpecList: GET /books with and without filters, with every skip and      *)
(* limit up to MaxLimit and a skip and a limit the query constraints       *)
(* refuse, on every table of up to MaxBooks of the sample books.           *)
(***************************************************************************)
ListSkips  == {-1} \cup Skips
ListLimits == {0, MaxQueryLimit + 1} \cup Limits

NextList ==
    \/ Create(SampleBooks, Clocks)
    \/ GetBooks(ListSkips, ListLimits, OptionalTitles, OptionalAuthors, OptionalCreators)

SpecList == Init /\ [][NextList]_vars

(***************************************************************************)
(* SpecTwin: the requests of SpecHttp with short strings, and GET /books   *)
(* with filters, skips and limits that cut the list.                       *)
(***************************************************************************)
TwinCreateBodies ==
    { [title |-> <<"a">>, author |-> <<"b">>, created_by |-> <<"a">>],
      [title |-> <<>>, author |-> <<"b">>, created_by |-> <<"a">>],
      [title |-> <<"a">>, author |-> <<"b">>] }

TwinUpdateBodies ==
    { [title |-> <<"b">>, created_by |-> <<"x">>],
      [title |-> None, author |-> <<"b">>],
      [author |-> <<>>] }

TwinSkips  == {-1, 0, 1}
TwinLimits == {0, 1, 2}

NextTwin ==
    \/ GetBooks(TwinSkips, TwinLimits, OptionalTitles, NoCriteria, NoCriteria)
    \/ GetBook(PathIds)
    \/ CreateBook(TwinCreateBodies, Clocks)
    \/ UpdateBook(PathIds, TwinUpdateBodies)
    \/ DeleteBook(PathIds)

SpecTwin == Init /\ [][NextTwin]_vars

(***************************************************************************)
(* SpecEmpty: search and search_books with each criterion absent, the      *)
(* empty string, or a string.                                              *)
(***************************************************************************)
EmptyOrTitle   == {None, <<>>, <<"a">>}
EmptyOrAuthor  == {None, <<>>, <<"B">>}
EmptyOrCreator == {None, <<>>}

NextEmpty ==
    \/ Create(SampleBooks, Clocks)
    \/ Search(EmptyOrTitle, EmptyOrAuthor, EmptyOrCreator)
    \/ SearchBooks(EmptyOrTitle, EmptyOrAuthor, EmptyOrCreator)

SpecEmpty == Init /\ [][NextEmpty]_vars

(***************************************************************************)
(* SpecSession: requests side by side, each with its own session from      *)
(* get_db.  A request that has started runs on: the endpoint and the       *)
(* clauses of get_db are straight-line code that waits for nothing, hence  *)
(* the weak fairness of each step.                                         *)
(***************************************************************************)
SessionBodies == { [title |-> <<"a">>, author |-> <<"b">>, created_by |-> <<"a">>] }

Endpoint(r) ==
    \/ EndpointGetBook(r, PathIds)
    \/ EndpointCreateBook(r, SessionBodies, Clocks)
    \/ EndpointDeleteBook(r, PathIds)

NextSession ==
    \E r \in Requests :
        \/ GetDbOpen(r)
        \/ Endpoint(r)
        \/ GetDbExcept(r)
        \/ GetDbFinally(r)

SpecSession ==
    /\ Init
    /\ [][NextSession]_vars
    /\ \A r \in Requests :
          /\ WF_vars(GetDbOpen(r))
          /\ WF_vars(Endpoint(r))
          /\ WF_vars(GetDbExcept(r))
          /\ WF_vars(GetDbFinally(r))

(***************************************************************************)
(* SpecRace: POST, PUT and DELETE requests side by side, each in its own   *)
(* session, the PUT and the DELETE in two steps each.                      *)
(***************************************************************************)
RaceBodies == { [title |-> <<"b">>] }
RaceIds    == {1, 2}

NextRace ==
    \E r \in Requests :
        \/ GetDbOpen(r)
        \/ EndpointCreateBook(r, SessionBodies, Clocks)
        \/ UpdateRead(r, RaceIds, RaceBodies)
        \/ UpdateCommit(r)
        \/ DeleteRead(r, RaceIds)
        \/ DeleteCommit(r)
        \/ GetDbExcept(r)
        \/ GetDbFinally(r)
        \/ NextRequest(r)

SpecRace == Init /\ [][NextRace]_vars

(***************************************************************************)
(* Properties.                                                             *)
(***************************************************************************)

OnlyTitle(call) ==
    Truthy(call.title) /\ call.author = None /\ call.created_by = None
OnlyAuthor(call) ==
    call.title = None /\ Truthy(call.author) /\ call.created_by = None
OnlyCreatedBy(call) ==
    call.title = None /\ call.author = None /\ Truthy(call.created_by)

\* C1: create returns one record with an id and a created_on, whose title,
\* author and created_by are the submitted ones, and get_by_id on the returned
\* id gives that same record.
C1_CreateReturnsStoredRecord ==
    last.name = "create" =>
        /\ Len(last.result) = 1
        /\ LET b == last.result[1]
           IN  /\ b.id # NullId
               /\ b.created_on # NullTime
               /\ b.title = last.title
               /\ b.author = last.author
               /\ b.created_by = last.created_by
               /\ get_by_id(books, b.id) = <<b>>

\* A create into a table that already holds a row, after some delete.
C1_Witness ==
    /\ last.name = "create"
    /\ Len(books) = 2
    /\ deleted # {}
    /\ last.result[1].title # last.result[1].created_by

\* C2: the id a create assigns was never the id of an earlier record, deleted
\* ones included.
C2_IdNeverReused ==
    last.name = "create" =>
        LET id == last.result[1].id
        IN  /\ id \notin deleted
            /\ Cardinality({i \in 1..Len(books) : books[i].id = id}) = 1

\* C3 as claimed: an update gives every field named in the payload the
\* payload's value and leaves every other field as it was.
C3_PayloadFieldsTakePayloadValues ==
    [][last'.name = "update" /\ get_by_id(books, last'.id) # <<>> =>
          LET old == get_by_id(books, last'.id)[1]
              new == get_by_id(books', last'.id)
              p   == last'.payload
          IN  /\ Len(new) = 1
              /\ \A f \in BookFields :
                    new[1][f] = IF f \in DOMAIN p THEN p[f] ELSE old[f]]_vars

\* C3 as amended: an update gives every field named in the payload with a
\* value other than None that value, and leaves every other field as it was
\* (a field not named, a field named with None, id, created_by, created_on);
\* get_by_id afterwards gives the record update returned.
C3_PartialUpdate ==
    [][last'.name = "update" /\ get_by_id(books, last'.id) # <<>> =>
          LET old == get_by_id(books, last'.id)[1]
              new == get_by_id(books', last'.id)
              p   == last'.payload
          IN  /\ Len(new) = 1
              /\ new = last'.result
              /\ \A f \in {"title", "author"} :
                    new[1][f] = IF f \in DOMAIN p /\ p[f] # None
                                THEN p[f] ELSE old[f]
              /\ \A f \in BookFields \ {"title", "author"} :
                    new[1][f] = old[f]
              /\ (DOMAIN p = {} => books' = books)]_vars

\* An update naming only the title has rewritten the title of a record whose
\* author is not the one the payloads carry.
C3_Witness ==
    /\ last.name = "update"
    /\ DOMAIN last.payload = {"title"}
    /\ last.payload.title = <<"A", "b">>
    /\ Len(last.result) = 1
    /\ last.result[1].title = <<"A", "b">>
    /\ last.result[1].author = <<"b">>
    /\ get_by_id(books, last.id) = last.result

\* C4: after delete(id) returned true, get_by_id(id) returns None, and every
\* later delete(id) returns false and leaves the table as it is.
C4_DeletedStaysDeleted ==
    [][last'.name = "delete" =>
          /\ (last'.ok => get_by_id(books', last'.id) = <<>>)
          /\ (last'.id \in deleted => ~last'.ok /\ books' = books)]_vars

\* C5: with two or three criteria, search returns the union of what each
\* criterion alone returns.
C5_SearchIsUnion ==
    last.name = "search" =>
        LET t == last.title
            a == last.author
            c == last.created_by
            byTitle   == IF Truthy(t) THEN Range(search(books, t, None, None)) ELSE {}
            byAuthor  == IF Truthy(a) THEN Range(search(books, None, a, None)) ELSE {}
            byCreator == IF Truthy(c) THEN Range(search(books, None, None, c)) ELSE {}
        IN  (Truthy(t) /\ Truthy(a)) \/ (Truthy(t) /\ Truthy(c)) \/ (Truthy(a) /\ Truthy(c))
                => Range(last.result) = byTitle \cup byAuthor \cup byCreator

\* A search by title and author returned a record that only one of the two
\* criteria matches.
C5_Witness ==
    /\ last.name = "search"
    /\ Truthy(last.title) /\ Truthy(last.author) /\ last.created_by = None
    /\ \E b \in Range(last.result) :
          /\ b \in Range(search(books, last.title, None, None))
          /\ b \notin Range(search(books, None, last.author, None))

\* C6: search by created_by alone returns only records whose created_by
\* equals the criterion.
C6_CreatedByIsExact ==
    last.name = "search" /\ OnlyCreatedBy(last) =>
        \A b \in Range(last.result) : b.created_by = last.created_by

\* str.lower() on the letters of the model.
lower(s) ==
    [i \in 1..Len(s) |->
        CASE s[i] = "A" -> "a"
          [] s[i] = "B" -> "b"
          [] OTHER      -> s[i]]

\* x in s
IsSubstring(x, s) ==
    \E k \in 0..(Len(s) - Len(x)) : \A i \in 1..Len(x) : s[k + i] = x[i]

\* C7: search by title alone returns exactly the records whose title holds the
\* criterion as a substring, letter case ignored, and likewise by author alone.
C7_SearchIsSubstringMatch ==
    /\ last.name = "search" /\ OnlyTitle(last) =>
          Range(last.result) =
              {b \in Range(books) : IsSubstring(lower(last.title), lower(b.title))}
    /\ last.name = "search" /\ OnlyAuthor(last) =>
          Range(last.result) =
              {b \in Range(books) : IsSubstring(lower(last.author), lower(b.author))}

\* C8: with a filter supplied, search_books returns positions skip+1 ..
\* skip+limit of search's result; with none, it returns get_all(skip, limit)
\* and calls get_all only.
C8_SearchBooksTwoPaths ==
    last.name = "search_books" =>
        LET found == search(books, last.title, last.author, last.created_by)
            n     == Max(0, Min(last.limit, Len(found) - last.skip))
        IN  IF last.title # None \/ last.author # None \/ last.created_by # None
            THEN /\ Len(last.result) = n
                 /\ \A i \in 1..n : last.result[i] = found[last.skip + i]
            ELSE /\ last.result = get_all(books, last.skip, last.limit)
                 /\ last.calls = <<"get_all">>

\* A filtered search_books skipped a match and returned a later one.
C8_Witness ==
    /\ last.name = "search_books"
    /\ Truthy(last.title)
    /\ last.skip = 1
    /\ Len(last.result) = 1
    /\ Len(search(books, last.title, last.author, last.created_by)) = 2
    /\ Len(books) = 2

\* C9: get_all(skip, limit) returns rows skip+1 .. min(skip+limit, n) of the
\* table in table order; two pages over disjoint ranges share no record, and
\* a page that ends within the table holds limit records.
C9_GetAllPages ==
    /\ last.name = "get_all" =>
          LET n == Len(books)
              m == Max(0, Min(last.skip + last.limit, n) - last.skip)
          IN  /\ Len(last.result) = m
              /\ \A i \in 1..m : last.result[i] = books[last.skip + i]
    /\ \A s1 \in Skips, s2 \in Skips, l1 \in Limits, l2 \in Limits :
          s1 + l1 <= s2 =>
              /\ Range(get_all(books, s1, l1)) \cap Range(get_all(books, s2, l2)) = {}
              /\ (s2 + l2 <= Len(books) =>
                     /\ Len(get_all(books, s1, l1)) = l1
                     /\ Len(get_all(books, s2, l2)) = l2)

\* The second page of one row out of a table of two.
C9_Witness ==
    /\ last.name = "get_all"
    /\ Len(books) = 2
    /\ last.skip = 1
    /\ last.limit = 1
    /\ last.result = <<books[2]>>

\* C10: no result of get_all, search or search_books holds a record whose id
\* was deleted earlier.
C10_NoDeletedIdListed ==
    last.name \in {"get_all", "search", "search_books"} =>
        \A b \in Range(last.result) : b.id \notin deleted

\* The ids some create has returned so far: those of the rows in the table and
\* those of the rows deleted.
CreatedIds == deleted \cup {books[i].id : i \in DOMAIN books}

\* C11: for an id that no create has returned, get_by_id returns None and
\* GET /books/{book_id} is answered 404 with no record.
C11_UnknownIdIsNotFound ==
    last.id \notin CreatedIds =>
        /\ last.name = "get_by_id" => last.result = <<>>
        /\ last.name = "GET /books/{book_id}" =>
              (last.status = 404 /\ last.result = <<>>)

\* GET on an id never created, asked of a table that holds a row.
C11_Witness ==
    /\ last.name = "GET /books/{book_id}"
    /\ last.id \notin CreatedIds
    /\ books # <<>>
    /\ last.status = 404

\* A string whose length is outside lo..hi.
OutOfBounds(v, lo, hi) == v # None /\ (Len(v) < lo \/ Len(v) > hi)

\* The malformed requests: a POST body that lacks a required field or holds a
\* string outside its length bounds, a PUT body with a present string outside
\* its length bounds, a GET /books with limit outside 1..1000 or skip below 0.
Malformed(call) ==
    \/ /\ call.name = "POST /books"
       /\ \/ {"title", "author", "created_by"} \ DOMAIN call.payload # {}
          \/ /\ "title" \in DOMAIN call.payload
             /\ OutOfBounds(call.payload.title, 1, 200)
          \/ /\ "author" \in DOMAIN call.payload
             /\ OutOfBounds(call.payload.author, 1, 100)
          \/ /\ "created_by" \in DOMAIN call.payload
             /\ OutOfBounds(call.payload.created_by, 1, 50)
    \/ /\ call.name = "PUT /books/{book_id}"
       /\ \/ /\ "title" \in DOMAIN call.payload
             /\ OutOfBounds(call.payload.title, 1, 200)
          \/ /\ "author" \in DOMAIN call.payload
             /\ OutOfBounds(call.payload.author, 1, 100)
    \/ /\ call.name = "GET /books"
       /\ (call.limit < 1 \/ call.limit > 1000 \/ call.skip < 0)

\* C12: a malformed request is answered 422, calls no service method and
\* leaves the table as it was.
C12_ValidationBeforeService ==
    [][Malformed(last') =>
          /\ last'.status = 422
          /\ last'.calls = <<>>
          /\ books' = books
          /\ deleted' = deleted]_vars

\* A PUT with an out-of-bounds field on the id of a stored row, refused.
C12_Witness ==
    /\ last.name = "PUT /books/{book_id}"
    /\ Malformed(last)
    /\ get_by_id(books, last.id) # <<>>
    /\ last.status = 422

\* C13: a GET, PUT or DELETE on /books/{book_id} is answered 404 exactly when
\* the request is well formed and the table holds no row with that id; so an
\* invalid PUT on a missing id is answered 422 and a request on the id of a
\* stored row is never answered 404.
C13_NotFoundIffValidAndMissing ==
    [][last'.name \in {"GET /books/{book_id}", "PUT /books/{book_id}",
                       "DELETE /books/{book_id}"} =>
          /\ last'.status = 404
                <=> (~Malformed(last') /\ get_by_id(books, last'.id) = <<>>)
          /\ (Malformed(last') /\ get_by_id(books, last'.id) = <<>>)
                => last'.status = 422]_vars

\* An invalid PUT on an id the table does not hold, answered 422.
C13_Witness ==
    /\ last.name = "PUT /books/{book_id}"
    /\ Malformed(last)
    /\ books # <<>>
    /\ get_by_id(books, last.id) = <<>>
    /\ last.status = 422

C15_UpdateOfMissingId ==
    [][(last'.name = "update" /\ get_by_id(books, last'.id) = <<>>) =>
          /\ last'.result = <<>>
          /\ books' = books]_vars

\* An update naming a new title, on an id missing from a table that holds a row.
C15_Witness ==
    /\ last.name = "update"
    /\ "title" \in DOMAIN last.payload
    /\ last.payload.title # None
    /\ books # <<>>
    /\ get_by_id(books, last.id) = <<>>
    /\ last.result = <<>>

\* C16: only title and author are mutable: no step changes the created_by or
\* the created_on of a row that stays in the table, and an update leaves every
\* row under the id it had.
C16_OnlyTitleAndAuthorMutable ==
    [][/\ \A i \in DOMAIN books, j \in DOMAIN books' :
             books[i].id = books'[j].id =>
                 /\ books'[j].created_by = books[i].created_by
                 /\ books'[j].created_on = books[i].created_on
       /\ last'.name = "update" =>
             [i \in DOMAIN books' |-> books'[i].id]
                 = [i \in DOMAIN books |-> books[i].id]]_vars

\* C17: every row of the table has a title, an author and a created_by that
\* are neither null nor the empty string.
C17_RequiredFieldsNeverEmpty ==
    \A i \in DOMAIN books :
        /\ Truthy(books[i].title)
        /\ Truthy(books[i].author)
        /\ Truthy(books[i].created_by)

\* C18: a PUT leaves title and author of every row either as they were or, for
\* the row of the path id, at the non-null string of length 1 or more that the
\* body supplied; a field the body lacks or holds as null stays as it was.
C18_PutNeverWritesNullOrEmpty ==
    [][last'.name = "PUT /books/{book_id}" =>
          /\ Len(books') = Len(books)
          /\ \A i \in DOMAIN books, f \in {"title", "author"} :
                LET body     == last'.payload
                    supplied == /\ books[i].id = last'.id
                                /\ f \in DOMAIN body
                                /\ body[f] # None
                IN  /\ books'[i][f] # None
                    /\ books'[i][f] # <<>>
                    /\ \/ books'[i][f] = books[i][f]
                       \/ supplied /\ Len(body[f]) >= 1 /\ books'[i][f] = body[f]
                    /\ ~supplied => books'[i][f] = books[i][f]]_vars

\* A PUT with a null title and a new author on the row that was posted with
\* the longest fields: the author is the body's, the title is still a string.
C18_Witness ==
    /\ last.name = "PUT /books/{book_id}"
    /\ last.status = 200
    /\ DOMAIN last.payload = {"title", "author"}
    /\ last.payload.title = None
    /\ last.result[1].created_by = Rep("c", MaxCreatedByLength)
    /\ last.result[1].author = last.payload.author
    /\ Truthy(last.result[1].title)
    /\ get_by_id(books, last.id) = last.result

\* C19: a create of a book that lacks title, author or created_by, or holds
\* one outside the length bounds of its field, raises a constraint-violation
\* error and adds no row.
C19_InvalidCreateFails ==
    [][(/\ last'.name = "create"
        /\ \/ last'.title = None
           \/ last'.author = None
           \/ last'.created_by = None
           \/ OutOfBounds(last'.title, 1, 200)
           \/ OutOfBounds(last'.author, 1, 100)
           \/ OutOfBounds(last'.created_by, 1, 50)) =>
          /\ last'.error = "IntegrityError"
          /\ books' = books]_vars

\* C20: a session opened by get_db is closed in the end, whether the endpoint
\* returned or raised; when it raised, the session is rolled back before it is
\* closed; and no request is over with its session still open.
C20_SessionAlwaysClosed ==
    /\ \A r \in Requests :
          (requests[r].session = "open") ~> (requests[r].session = "closed")
    /\ [][\A r \in Requests :
             (/\ requests[r].session = "open"
              /\ requests'[r].session = "closed"
              /\ requests[r].raised) => requests[r].rolled_back]_vars
    /\ [](\A r \in Requests :
             requests[r].pc = "done" => requests[r].session = "closed")

\* A request whose endpoint raised, over: rolled back and closed.
C20_Witness ==
    \E r \in Requests :
        /\ requests[r].pc = "done"
        /\ requests[r].raised
        /\ requests[r].rolled_back
        /\ requests[r].session = "closed"

Contents(bs) ==
    [i \in DOMAIN bs |-> <<bs[i].title, bs[i].author, bs[i].created_by>>]

\* C22: whatever the table held, after seed_database it holds exactly the 8
\* sample books (their titles, authors and created_by), each once; and a run
\* of seed_database right after another leaves the same count and contents.
C22_SeedingIsIdempotent ==
    [][last'.name = "seed_database" =>
          /\ Len(books') = 8
          /\ Contents(books') = Contents(create_sample_books)
          /\ last.name = "seed_database" =>
                /\ Len(books') = Len(books)
                /\ Contents(books') = Contents(books)]_vars

\* seed_database has run again: the run before it had left rows under 8 ids,
\* this run cleared them, and the 8 sample books are there.
C22_Witness ==
    /\ last.name = "seed_database"
    /\ last.calls = <<"delete", "add">>
    /\ Cardinality(deleted) = 8
    /\ Len(books) = 8

\* C23: search called with no criteria returns every row of the table: as
\* many records as the table holds, and those records.
C23_SearchWithoutCriteriaReturnsAll ==
    (/\ last.name = "search"
     /\ last.title = None /\ last.author = None /\ last.created_by = None) =>
        /\ Len(last.result) = Len(books)
        /\ last.result = books

\* search() on a table of MaxBooks rows.
C23_Witness ==
    /\ last.name = "search"
    /\ last.title = None /\ last.author = None /\ last.created_by = None
    /\ Len(books) = MaxBooks
    /\ Len(last.result) = MaxBooks

\* C24: a POST /books whose body passes the validation is answered 201 and
\* adds exactly one row, the record it returns, to the table; it is never
\* answered with a 5xx status.
C24_ValidPostSucceeds ==
    [][(last'.name = "POST /books" /\ BookCreate(last'.payload)) =>
          /\ last'.status = 201
          /\ last'.status < 500
          /\ Len(books') = Len(books) + 1
          /\ Len(last'.result) = 1
          /\ books' = Append(books, last'.result[1])]_vars

\* A POST of the longest strings the schema accepts, answered 201, that filled
\* the table.
C24_Witness ==
    /\ last.name = "POST /books"
    /\ BookCreate(last.payload)
    /\ Len(last.payload.title) = MaxTitleLength
    /\ last.status = 201
    /\ Len(books) = MaxBooks
    /\ books[Len(books)] = last.result[1]

\* The rows of a table that are not under the id.
Others(bs, book_id) == SelectSeq(bs, LAMBDA b : b.id # book_id)

Reads ==
    {"get_by_id", "get_all", "search", "search_by_title", "search_by_author",
     "get_by_created_by", "search_books"}

\* C26: get_by_id, get_all, search, search_by_title, search_by_author,
\* get_by_created_by and search_books leave the table as it was: the same rows
\* with the same field values, whatever their arguments.
C26_ReadsLeaveStoreUnchanged ==
    [][last'.name \in Reads => books' = books]_vars

\* A get_by_id that found its row in a full table: the row is still there.
C26_Witness ==
    /\ last.name = "get_by_id"
    /\ last.result # <<>>
    /\ Len(books) = MaxBooks
    /\ last.result[1] \in Range(books)

\* The records that match the filters of a GET /books: those search returns
\* when a filter is given, every row of the table when none is.
Matching(call) ==
    IF Truthy(call.title) \/ Truthy(call.author) \/ Truthy(call.created_by)
    THEN search(books, call.title, call.author, call.created_by)
    ELSE books

\* C27: a GET /books answered 200 returns at most limit records, hence at
\* most 1000, with and without filters, and returns the empty list when skip
\* is at least the number of matching records.
C27_GetBooksAtMostLimit ==
    (last.name = "GET /books" /\ last.status = 200) =>
        /\ Len(last.result) <= last.limit
        /\ Len(last.result) <= 1000
        /\ last.skip >= Len(Matching(last)) => last.result = <<>>

\* A filtered GET /books that more records match than limit allows: limit of
\* them are returned.
C27_Witness ==
    /\ last.name = "GET /books"
    /\ last.status = 200
    /\ Truthy(last.title)
    /\ Len(Matching(last)) > last.skip + last.limit
    /\ Len(last.result) = last.limit

\* What a client and the table see of a response: the status, the body and
\* the table after the request.
Observed(response) ==
    [status |-> response.status, result |-> response.result,
     store |-> response.store]

\* The response of the handler of main.py to the request of a call, on a table.
MainResponse(bs, call, clock) ==
    CASE call.name = "GET /books" ->
            main_get_books(bs, call.skip, call.limit, call.title, call.author,
                           call.created_by)
      [] call.name = "GET /books/{book_id}" -> main_get_book(bs, call.id)
      [] call.name = "POST /books" -> main_create_book(bs, call.payload, clock)
      [] call.name = "PUT /books/{book_id}" ->
            main_update_book(bs, call.id, call.payload)
      [] call.name = "DELETE /books/{book_id}" -> main_delete_book(bs, call.id)

\* The response of the router to the same request.
RouterResponse(bs, call, clock) ==
    CASE call.name = "GET /books" ->
            get_books(bs, call.skip, call.limit, call.title, call.author,
                      call.created_by)
      [] call.name = "GET /books/{book_id}" -> get_book(bs, call.id)
      [] call.name = "POST /books" -> create_book(bs, call.payload, clock)
      [] call.name = "PUT /books/{book_id}" -> update_book(bs, call.id, call.payload)
      [] call.name = "DELETE /books/{book_id}" -> delete_book(bs, call.id)

HttpRequests ==
    {"GET /books", "GET /books/{book_id}", "POST /books",
     "PUT /books/{book_id}", "DELETE /books/{book_id}"}

\* C28: on every table a sequence of requests leads to, the handler of main.py
\* and the handler of the router answer a request with the same status and
\* the same body and leave the same table; the table the router left, which
\* the next request starts from, is therefore the one main.py would have left.
C28_MainEqualsRouter ==
    [][last'.name \in HttpRequests =>
          \A clock \in Clocks :
              /\ Observed(MainResponse(books, last', clock))
                     = Observed(RouterResponse(books, last', clock))
              /\ MainResponse(books, last', clock).store = books'
              /\ MainResponse(books, last', clock).status = last'.status]_vars

\* A filtered GET /books that the slice cut short, answered alike by both.
C28_Witness ==
    /\ last.name = "GET /books"
    /\ last.status = 200
    /\ Truthy(last.title)
    /\ Len(search(books, last.title, last.author, last.created_by))
          > Len(last.result)
    /\ last.result # <<>>
    /\ main_get_books(books, last.skip, last.limit, last.title, last.author,
                      last.created_by).result = last.result

\* A criterion that was not supplied: None or the empty string.
NotSupplied(x) == x = None \/ x = <<>>

\* The criterion with the empty string read as None.
EmptyAsNone(x) == IF x = <<>> THEN None ELSE x

\* C29: an empty-string filter counts as no filter.  search_books with title,
\* author and created_by each None or "" calls get_all and returns
\* get_all(skip, limit); search returns what it returns with every "" replaced
\* by None, so with no other criterion it returns every row.
C29_EmptyFilterIsNoFilter ==
    /\ (/\ last.name = "search_books"
        /\ NotSupplied(last.title)
        /\ NotSupplied(last.author)
        /\ NotSupplied(last.created_by)) =>
           /\ last.calls = <<"get_all">>
           /\ last.result = get_all(books, last.skip, last.limit)
    /\ last.name = "search" =>
           /\ last.result = search(books, EmptyAsNone(last.title),
                                   EmptyAsNone(last.author),
                                   EmptyAsNone(last.created_by))
           /\ (/\ NotSupplied(last.title)
               /\ NotSupplied(last.author)
               /\ NotSupplied(last.created_by)) => last.result = books

\* A search with an empty title beside an author criterion that some row of
\* the table does not match: the empty title did not bring that row in.
C29_Witness ==
    /\ last.name = "search"
    /\ last.title = <<>>
    /\ Truthy(last.author)
    /\ last.result # <<>>
    /\ Len(last.result) < Len(books)

\* The ids of the rows of a table.
IdsOf(bs) == {bs[i].id : i \in DOMAIN bs}

\* C30: under every interleaving of the steps of concurrent requests, a row
\* comes into the table under an id only by a create that was assigned that
\* id; in particular the commit of an update that had read a row which a
\* delete has removed since leaves the table without that row.
C30_UpdateNeverRecreates ==
    [][/\ \A id \in IdsOf(books') \ IdsOf(books) :
             /\ last'.name = "POST /books"
             /\ last'.status = 201
             /\ last'.result[1].id = id
       /\ \A r \in Requests :
             (/\ requests[r].pc = "update_commit"
              /\ requests'[r].pc # "update_commit"
              /\ requests[r].id \notin IdsOf(books)) =>
                 requests[r].id \notin IdsOf(books')]_vars

\* An update that had read its row has committed after a delete of the same
\* id did: it ended in an error and the row is not in the table.
C30_Witness ==
    /\ last.name = "PUT /books/{book_id}"
    /\ last.error = "StaleDataError"
    /\ last.status = 500
    /\ last.id \in deleted
    /\ last.id \notin IdsOf(books)
    /\ \E r \in Requests : requests[r].pc = "except" /\ requests[r].raised

====
